---- MODULE Spec2Model ----
(***************************************************************************)
(* Model of src/src/utils/imageExtractor.ts: the URL normalizer, the image *)
(* URL validator, the HTML extraction passes and the fetch wrapper.        *)
(*                                                                         *)
(* Strings are TLA+ strings handled character by character (Len, SubSeq,   *)
(* \o), so trimming, prefix tests, substring tests and concatenation are   *)
(* computed as the code computes them.                                     *)
(***************************************************************************)
EXTENDS Integers, Sequences, FiniteSets, TLC

VARIABLES
    api,        \* which exported function the client called last
    nzUrl,      \* normalizeUrl: argument url
    nzBase,     \* normalizeUrl: argument baseUrl
    nzOut,      \* normalizeUrl: outcome of the call
    nzAgain,    \* normalizeUrl: outcome of normalizeUrl(nzOut.value, nzBase)
    hpc,        \* extractImagesFromHtml: position in the function
    hCaller,    \* extractImagesFromHtml: "client" or "url" (called at line 237)
    hBase,      \* extractImagesFromHtml: argument baseUrl
    hOpts,      \* extractImagesFromHtml: mergedOptions
    imageUrls,  \* extractImagesFromHtml: the Set imageUrls, in insertion order
    allImageUrls, \* extractImagesFromScriptTags: the array allImageUrls
    hSeen,      \* number of candidates the document has supplied so far
    hLog,       \* history: "dup" a URL was met again, "threw" a step threw,
                \* "astFailed" parse() threw for a script block
    hUnparsed,  \* history: the last script block parse() threw for
    hResult,    \* extractImagesFromHtml: settled promise
    upc,        \* extractImagesFromUrl: position in the function
    uUrl,       \* extractImagesFromUrl: argument url
    timer,      \* extractImagesFromUrl: the timeout armed at line 207
    aborted,    \* extractImagesFromUrl: controller.signal.aborted
    uResult,    \* extractImagesFromUrl: settled promise
    calls       \* concurrent calls: the locals and the promise of each call

vars == <<api, nzUrl, nzBase, nzOut, nzAgain, hpc, hCaller, hBase, hOpts,
          imageUrls, allImageUrls, hSeen, hLog, hUnparsed, hResult,
          upc, uUrl, timer, aborted, uResult, calls>>

nzVars == <<nzUrl, nzBase, nzOut, nzAgain>>
hVars ==
    <<hpc, hCaller, hBase, hOpts, imageUrls, allImageUrls, hSeen, hLog, hUnparsed,
      hResult>>
uVars == <<upc, uUrl, timer, aborted, uResult>>
cVars == <<calls>>

None == "<none>"

\* A normalizeUrl call that has not been made.
NoOutcome == [threw |-> FALSE, value |-> None]

\* Candidates one document supplies to one extractImagesFromHtml call.
MaxCandidates == 3

(***************************************************************************)
(* String primitives of the code (methods of String.prototype)             *)
(***************************************************************************)
CharAt(s, i) == IF i \in 1..Len(s) THEN SubSeq(s, i, i) ELSE ""

\* s.substring(a - 1, b) in 1-based inclusive positions, clamped to the string.
slice(s, a, b) ==
    LET lo == IF a < 1 THEN 1 ELSE a
        hi == IF b > Len(s) THEN Len(s) ELSE b
    IN  IF lo > hi THEN "" ELSE SubSeq(s, lo, hi)

startsWith(s, p) == Len(s) >= Len(p) /\ SubSeq(s, 1, Len(p)) = p

endsWith(s, p) == Len(s) >= Len(p) /\ SubSeq(s, Len(s) - Len(p) + 1, Len(s)) = p

includes(s, p) ==
    \E i \in 1..(Len(s) - Len(p) + 1) : SubSeq(s, i, i + Len(p) - 1) = p

\* 1-based position of the last occurrence of the character c, 0 when absent
\* (lastIndexOf(c) + 1 in the code's 0-based terms).
lastIndexOf(s, c) ==
    LET hits == {i \in 1..Len(s) : CharAt(s, i) = c}
    IN  IF hits = {} THEN 0 ELSE CHOOSE i \in hits : \A j \in hits : j <= i

\* 1-based position of the first character of s at or after `from` that lies
\* in the set cs; Len(s) + 1 when there is none.
firstOf(s, cs, from) ==
    LET hits == {i \in from..Len(s) : CharAt(s, i) \in cs}
    IN  IF hits = {} THEN Len(s) + 1 ELSE CHOOSE i \in hits : \A j \in hits : i <= j

WhiteSpace == {" ", "\t", "\n"}

trim(s) ==
    LET keep == {i \in 1..Len(s) : CharAt(s, i) \notin WhiteSpace}
    IN  IF keep = {} THEN ""
        ELSE SubSeq(s, CHOOSE i \in keep : \A j \in keep : i <= j,
                       CHOOSE i \in keep : \A j \in keep : j <= i)

UpperCase == "ABCDEFGHIJKLMNOPQRSTUVWXYZ"

LowerCase == "abcdefghijklmnopqrstuvwxyz"

UpperToLower ==
    [c \in {SubSeq(UpperCase, i, i) : i \in 1..26} |->
        LET i == CHOOSE k \in 1..26 : SubSeq(UpperCase, k, k) = c
        IN  SubSeq(LowerCase, i, i)]

RECURSIVE toLowerCase(_)
toLowerCase(s) ==
    IF s = "" THEN ""
    ELSE LET c == CharAt(s, 1)
         IN  (IF c \in DOMAIN UpperToLower THEN UpperToLower[c] ELSE c)
                 \o toLowerCase(SubSeq(s, 2, Len(s)))

(***************************************************************************)
(* new URL(input) without a base, for inputs that have no port, userinfo,  *)
(* backslash, dot segment or interior tab/newline: the parse succeeds or   *)
(* throws, and on success exposes origin and pathname.                     *)
(***************************************************************************)
LowerAlpha == {SubSeq(LowerCase, i, i) : i \in 1..26}

Alpha == LowerAlpha \cup DOMAIN UpperToLower

Digit == {"0", "1", "2", "3", "4", "5", "6", "7", "8", "9"}

SchemeChars == Alpha \cup Digit \cup {"+", "-", "."}

HostChars == Alpha \cup Digit \cup {"-", "."}

\* Schemes whose origin is the tuple (scheme, host, port).
TupleOriginSchemes == {"http", "https", "ftp", "ws", "wss"}

InvalidURL == [ok |-> FALSE, origin |-> None, pathname |-> None]

pathOrRoot(path) == IF path = "" THEN "/" ELSE path

\* The part of s from position `from` up to the query or fragment.
pathFrom(s, from) == slice(s, from, firstOf(s, {"?", "#"}, from) - 1)

validHost(host) ==
    host # "" /\ \A i \in 1..Len(host) : CharAt(host, i) \in HostChars

\* Position of the first character of rest that is not a slash.
skipSlashes(rest) ==
    firstOf(rest, {CharAt(rest, i) : i \in 1..Len(rest)} \ {"/"}, 1)

\* scheme://host/path with the host at hs..he-1 of rest
parseHost(scheme, rest, hs, he) ==
    IF ~validHost(slice(rest, hs, he - 1)) THEN InvalidURL
    ELSE [ok |-> TRUE,
          origin |-> scheme \o "://" \o toLowerCase(slice(rest, hs, he - 1)),
          pathname |-> pathOrRoot(pathFrom(rest, he))]

parseAuthority(scheme, rest, hs) ==
    parseHost(scheme, rest, hs, firstOf(rest, {"/", "?", "#"}, hs))

parseFile(rest) ==
    [ok |-> TRUE, origin |-> "null",
     pathname |-> pathOrRoot(
         IF startsWith(rest, "//")
         THEN pathFrom(rest, firstOf(rest, {"/", "?", "#"}, 3))
         ELSE pathFrom(rest, 1))]

\* What follows the scheme: a special scheme takes any run of slashes, then
\* the host, then the path; any other scheme has an opaque origin and path.
parseRest(scheme, rest) ==
    IF scheme \in TupleOriginSchemes THEN parseAuthority(scheme, rest, skipSlashes(rest))
    ELSE IF scheme = "file" THEN parseFile(rest)
    ELSE [ok |-> TRUE, origin |-> "null", pathname |-> pathFrom(rest, 1)]

hasScheme(s, colon) ==
    /\ colon > 1
    /\ colon <= Len(s)
    /\ CharAt(s, 1) \in Alpha
    /\ \A i \in 1..(colon - 1) : CharAt(s, i) \in SchemeChars

parseScheme(s, colon) ==
    IF ~hasScheme(s, colon) THEN InvalidURL
    ELSE parseRest(toLowerCase(slice(s, 1, colon - 1)), slice(s, colon + 1, Len(s)))

parseTrimmed(s) == parseScheme(s, firstOf(s, {":"}, 1))

NewURL(input) == parseTrimmed(trim(input))

(***************************************************************************)
(* normalizeUrl (lines 261-300)                                            *)
(***************************************************************************)
NoException(ret) == [exc |-> FALSE, ret |-> ret]

Exception == [exc |-> TRUE, ret |-> None]

\* Lines 287-289
basePath(pathname) ==
    IF endsWith(pathname, "/") THEN pathname
    ELSE slice(pathname, 1, lastIndexOf(pathname, "/"))

\* Lines 293-295
validated(fullUrl) == IF NewURL(fullUrl).ok THEN NoException(fullUrl) ELSE Exception

\* Lines 282-295, base = new URL(baseUrl)
resolveAgainst(fullUrl, base) ==
    IF ~base.ok THEN Exception
    ELSE IF startsWith(fullUrl, "/") THEN validated(base.origin \o fullUrl)
    ELSE IF ~startsWith(fullUrl, "http")
         THEN validated(base.origin \o basePath(base.pathname) \o fullUrl)
    ELSE validated(fullUrl)

\* Lines 277-295
resolve(fullUrl, baseUrl) ==
    IF startsWith(fullUrl, "#") \/ startsWith(fullUrl, "javascript:")
    THEN NoException("")
    ELSE resolveAgainst(fullUrl, NewURL(baseUrl))

\* Lines 271-295, the body of the try block.  exc: an exception left the block.
normalizeUrlTry(t, baseUrl) ==
    resolve(IF startsWith(t, "//") THEN "https:" \o t ELSE t, baseUrl)

\* A catch block that lets the exception go on to the caller.
normalizeUrlCatchRethrows == [threw |-> TRUE, value |-> None]

\* Lines 296-299: the catch block warns and returns ''.
normalizeUrlCatch == [threw |-> FALSE, value |-> ""]

\* The result of the try statement.
tryResult(r) ==
    IF r.exc THEN normalizeUrlCatch ELSE [threw |-> FALSE, value |-> r.ret]

normalizeTrimmed(t, baseUrl) ==
    IF startsWith(t, "data:") THEN [threw |-> FALSE, value |-> t]
    ELSE tryResult(normalizeUrlTry(t, baseUrl))

\* The whole call.  threw: the call ended with an exception.
normalizeUrlCall(url, baseUrl) ==
    IF url = "" \/ trim(url) = "" THEN [threw |-> FALSE, value |-> ""]
    ELSE normalizeTrimmed(trim(url), baseUrl)

(***************************************************************************)
(* isValidImageUrl (lines 305-329)                                         *)
(***************************************************************************)
imageExtensions ==
    {".jpg", ".jpeg", ".png", ".gif", ".webp", ".bmp", ".svg", ".ico", ".avif"}

imagePatterns == {"/images/", "/img/", "/assets/", "/static/", "image=", "img="}

isValidImageUrl(url) ==
    IF url = "" THEN FALSE
    ELSE IF startsWith(url, "data:") THEN startsWith(url, "data:image/")
    ELSE LET urlLower == toLowerCase(url)
         IN  \/ \E ext \in imageExtensions : includes(urlLower, ext)
             \/ \E pattern \in imagePatterns : includes(urlLower, pattern)

(***************************************************************************)
(* parseSrcset (lines 356-370) and extractBackgroundImages (lines 334-351) *)
(***************************************************************************)
RECURSIVE split(_, _)

splitAt(s, sep, i) ==
    IF i > Len(s) THEN <<s>>
    ELSE <<slice(s, 1, i - 1)>> \o split(slice(s, i + 1, Len(s)), sep)

split(s, sep) == splitAt(s, sep, firstOf(s, {sep}, 1))

\* /^([^\s]+)/ on the trimmed entry: the leading run of non-whitespace.
srcsetToken(trimmed) == slice(trimmed, 1, firstOf(trimmed, WhiteSpace, 1) - 1)

tokenList(token) == IF token = "" THEN <<>> ELSE <<token>>

RECURSIVE srcsetTokens(_)
srcsetTokens(entries) ==
    IF entries = <<>> THEN <<>>
    ELSE tokenList(srcsetToken(trim(Head(entries)))) \o srcsetTokens(Tail(entries))

parseSrcset(srcset) == srcsetTokens(split(srcset, ","))

Quotes == {"'", "\""}

\* One attempt of /url\(['"]?([^'")]+)['"]?\)/gi at position i of cssText:
\* the capture runs from c0 to ce - 1, and the match ends at `last`.
cssMatchEnd(s, i, c0, ce, last) ==
    [ok |-> /\ toLowerCase(slice(s, i, i + 3)) = "url("
            /\ ce > c0
            /\ CharAt(s, last) = ")",
     capture |-> slice(s, c0, ce - 1),
     last |-> last]

cssCapture(s, i, c0, ce) ==
    cssMatchEnd(s, i, c0, ce, IF CharAt(s, ce) \in Quotes THEN ce + 1 ELSE ce)

cssAfterQuote(s, i, c0) == cssCapture(s, i, c0, firstOf(s, Quotes \cup {")"}, c0))

cssMatchAt(s, i) ==
    cssAfterQuote(s, i, IF CharAt(s, i + 4) \in Quotes THEN i + 5 ELSE i + 4)

stripQuotes(url) ==
    IF Len(url) >= 2 /\ startsWith(url, "\"") /\ endsWith(url, "\"")
    THEN slice(url, 2, Len(url) - 1)
    ELSE IF Len(url) >= 2 /\ startsWith(url, "'") /\ endsWith(url, "'")
    THEN slice(url, 2, Len(url) - 1)
    ELSE url

\* The exec loop, resumed at lastIndex = from.
RECURSIVE cssMatchesFrom(_, _)

cssNext(s, m) == <<stripQuotes(trim(m.capture))>> \o cssMatchesFrom(s, m.last + 1)

cssFirst(s, starts) ==
    IF starts = {} THEN <<>>
    ELSE cssNext(s, cssMatchAt(s, CHOOSE k \in starts : \A j \in starts : k <= j))

cssMatchesFrom(s, from) == cssFirst(s, {i \in from..Len(s) : cssMatchAt(s, i).ok})

extractBackgroundImages(cssText) == cssMatchesFrom(cssText, 1)

(***************************************************************************)
(* The caller's urlFilter (line 19; default at line 57).  A filter returns *)
(* true or false, or throws.                                               *)
(***************************************************************************)
UrlFilters == {"acceptAll", "noCdn", "throwsOnData"}

urlFilterApply(f, url) ==
    CASE f = "acceptAll" -> "true"
      [] f = "noCdn" -> IF includes(url, "cdn.") THEN "false" ELSE "true"
      [] f = "throwsOnData" -> IF startsWith(url, "data:") THEN "throw" ELSE "true"

FilterErrorMessage == "filter failed"

(***************************************************************************)
(* Sets (new Set, Set.add, Array.from): a sequence without repetition, in  *)
(* insertion order.                                                        *)
(***************************************************************************)
Range(f) == {f[i] : i \in DOMAIN f}

\* An add that appends without looking for the value.
SetAddNoLookup(set, v) == Append(set, v)

SetAdd(set, v) == IF v \in Range(set) THEN set ELSE Append(set, v)

RECURSIVE SetAddAll(_, _)
SetAddAll(set, vs) ==
    IF vs = <<>> THEN set ELSE SetAddAll(SetAdd(set, Head(vs)), Tail(vs))

(***************************************************************************)
(* One candidate of a DOM pass: lines 96-100, 109-112, 129-132, 142-145,   *)
(* 163-167.  The outcome is the URL to add, nothing, or an exception.      *)
(***************************************************************************)
Skip == [kind |-> "skip", url |-> "", msg |-> ""]

AddUrl(u) == [kind |-> "add", url |-> u, msg |-> ""]

Throw(m) == [kind |-> "throw", url |-> "", msg |-> m]

InvalidUrlMessage == "Invalid URL"

\* The filter's verdict f on the validated URL.
filtered(f, url) ==
    IF f = "throw" THEN Throw(FilterErrorMessage)
    ELSE IF f = "true" THEN AddUrl(url)
    ELSE Skip

\* `fullUrl && isValidImageUrl(fullUrl) && urlFilter(fullUrl)` on the outcome
\* n of normalizeUrl.
validatedAndFiltered(n, urlFilter) ==
    IF n.threw THEN Throw(InvalidUrlMessage)
    ELSE IF n.value # "" /\ isValidImageUrl(n.value)
    THEN filtered(urlFilterApply(urlFilter, n.value), n.value)
    ELSE Skip

domCandidate(raw, baseUrl, urlFilter) ==
    IF raw = "" THEN Skip
    ELSE validatedAndFiltered(normalizeUrlCall(raw, baseUrl), urlFilter)

\* A loop over candidates adding to the Set `set`; stops at the first throw.
\* dup: some add met a URL the Set already held.
NoThrow(set) == [urls |-> set, threw |-> FALSE, msg |-> "", dup |-> FALSE]

\* The loop state acc after the outcome o of one candidate.
accept(acc, o) ==
    CASE o.kind = "throw" -> [acc EXCEPT !.threw = TRUE, !.msg = o.msg]
      [] o.kind = "add" -> [acc EXCEPT !.urls = SetAdd(@, o.url),
                                       !.dup = @ \/ o.url \in Range(acc.urls)]
      [] OTHER -> acc

RECURSIVE domPass(_, _, _, _)
domPass(acc, raws, baseUrl, urlFilter) ==
    IF raws = <<>> \/ acc.threw THEN acc
    ELSE domPass(accept(acc, domCandidate(Head(raws), baseUrl, urlFilter)),
                 Tail(raws), baseUrl, urlFilter)

\* Line 117: the URLs of one img element go into imageUrls.
mergeElement(set, element) ==
    [element EXCEPT !.urls = SetAddAll(set, element.urls),
                    !.dup = @ \/ \E u \in Range(element.urls) : u \in Range(set)]

(***************************************************************************)
(* Script passes                                                           *)
(***************************************************************************)
\* isImageRelatedKey (lines 602-612)
imageKeys ==
    {"src", "url", "image", "img", "background", "bg", "picture", "photo",
     "icon", "avatar", "logo", "backgroundImage", "srcset", "dataSrc", "dataUrl"}

isImageRelatedKey(key) == \E imageKey \in imageKeys : includes(toLowerCase(key), imageKey)

Pushed(urls) == [threw |-> FALSE, urls |-> urls]

PushThrew == [threw |-> TRUE, urls |-> <<>>]

\* `if (fullUrl) urls.push(fullUrl)` on the outcome n of normalizeUrl.
pushNormalized(n) ==
    IF n.threw THEN PushThrew
    ELSE IF n.value # "" THEN Pushed(<<n.value>>)
    ELSE Pushed(<<>>)

\* Lines 436-441: the candidate is validated as matched, then normalized.
regexUrl(url, baseUrl) ==
    IF url # "" /\ isValidImageUrl(url)
    THEN pushNormalized(normalizeUrlCall(url, baseUrl))
    ELSE Pushed(<<>>)

\* Lines 435-441, one regex match m = [m0 |-> match[0], m1 |-> match[1]].
\* Result: the URLs pushed, and whether normalizeUrl threw.
regexCandidate(m, baseUrl) == regexUrl(IF m.m1 # "" THEN m.m1 ELSE m.m0, baseUrl)

\* h, then (if h did not throw) t.
pushThen(h, t) == IF h.threw THEN h ELSE [threw |-> t.threw, urls |-> h.urls \o t.urls]

RECURSIVE extractImagesWithRegex(_, _)
extractImagesWithRegex(matches, baseUrl) ==
    IF matches = <<>> THEN Pushed(<<>>)
    ELSE pushThen(regexCandidate(Head(matches), baseUrl),
                  extractImagesWithRegex(Tail(matches), baseUrl))

\* Lines 466-471 and the same test at 480, 498, 517, 538, 565, 580: the
\* literal is validated as written, then normalized.
astCandidate(value, baseUrl) ==
    IF isValidImageUrl(value)
    THEN pushNormalized(normalizeUrlCall(value, baseUrl))
    ELSE Pushed(<<>>)

\* The visitors fired for one node, in traversal order (a parent before the
\* StringLiteral it holds).
\*   StringLiteral   [value]                        lines 464-472
\*   TemplateLiteral [value = quasi.value.raw]      lines 475-487
\*   ObjectProperty / VariableDeclarator / AssignmentExpression
\*                   [key, value]                   lines 490-547
\*   setAttribute    [key = args[0], value]         lines 555-572
\*   require         [value]                        lines 575-587
astNodeValues(node) ==
    CASE node.type \in {"StringLiteral", "TemplateLiteral"} -> <<node.value>>
      [] node.type \in {"ObjectProperty", "VariableDeclarator",
                        "AssignmentExpression"} ->
            IF isImageRelatedKey(node.key) THEN <<node.value, node.value>>
            ELSE <<node.value>>
      [] node.type = "setAttribute" ->
            \* the two arguments are StringLiterals too
            IF isImageRelatedKey(node.key) THEN <<node.value, node.key, node.value>>
            ELSE <<node.key, node.value>>
      [] node.type = "require" -> <<node.value, node.value>>

\* An exception ends the traversal; the catch at line 591 keeps urls.
RECURSIVE astVisit(_, _)

astVisitNext(h, values, baseUrl) ==
    IF h.threw THEN <<>> ELSE h.urls \o astVisit(Tail(values), baseUrl)

astVisit(values, baseUrl) ==
    IF values = <<>> THEN <<>>
    ELSE astVisitNext(astCandidate(Head(values), baseUrl), values, baseUrl)

RECURSIVE astValues(_)
astValues(nodes) ==
    IF nodes = <<>> THEN <<>> ELSE astNodeValues(Head(nodes)) \o astValues(Tail(nodes))

\* extractImagesWithAST (lines 451-597).  parsed = FALSE: parse() threw.
extractImagesWithAST(parsed, nodes, baseUrl) ==
    IF ~parsed THEN <<>> ELSE astVisit(astValues(nodes), baseUrl)

\* Lines 381-391: both outputs go through one Set.
unionOfPasses(regexMatches, astMatches) ==
    IF regexMatches.threw THEN PushThrew
    ELSE Pushed(SetAddAll(SetAddAll(<<>>, regexMatches.urls), astMatches))

\* An orchestrator that returns nothing for a block parse() threw for.
extractImagesFromJsCodeNeedsParse(block, baseUrl) ==
    IF ~block.parsed THEN Pushed(<<>>)
    ELSE unionOfPasses(extractImagesWithRegex(block.matches, baseUrl),
                       extractImagesWithAST(block.parsed, block.nodes, baseUrl))

\* extractImagesFromJsCode (lines 377-392)
extractImagesFromJsCode(block, baseUrl) ==
    unionOfPasses(extractImagesWithRegex(block.matches, baseUrl),
                  extractImagesWithAST(block.parsed, block.nodes, baseUrl))

\* Lines 177-179: the filter's verdict f on one script URL.
acceptJs(acc, f, url) ==
    CASE f = "throw" -> [acc EXCEPT !.threw = TRUE, !.msg = FilterErrorMessage]
      [] f = "true" -> [acc EXCEPT !.urls = SetAdd(@, url),
                                   !.dup = @ \/ url \in Range(acc.urls)]
      [] OTHER -> acc

\* Lines 176-180: the filter loop over jsImages.
RECURSIVE jsFilterLoop(_, _, _)
jsFilterLoop(acc, jsImages, urlFilter) ==
    IF jsImages = <<>> \/ acc.threw THEN acc
    ELSE jsFilterLoop(acceptJs(acc, urlFilterApply(urlFilter, Head(jsImages)),
                               Head(jsImages)),
                      Tail(jsImages), urlFilter)

(***************************************************************************)
(* Inputs                                                                  *)
(***************************************************************************)
RawUrls ==
    {"", " ", "a.png", " b.PNG ", "/a.png", "/static/hero", "//cdn.io/b.jpg",
     "#a.png", "javascript:img=1", "https://x.com/a.png", "http://y.org/img/c",
     "http-logo.png", "http:c.gif", "ftp://h.io/c.gif", "/api/v1/games?key=1",
     "data:image/png;base64,AAAA", "data:text/plain;base64,AAAA",
     " data:text/plain;base64,AA/img/AA", " data:image/png;base64,AAAA "}

BaseUrls ==
    {"https://x.com/dir/page.html", "http://y.org/", "https://x.com",
     "ftp://h.io/d/p", "file:///tmp/x.html", "", "not a url"}

\* What a document holds: attribute values of img and meta elements, srcset
\* attributes, style texts and inline script blocks.
DocValues ==
    {"a.png", "/a.png", "https://x.com/a.png", "//cdn.io/b.jpg",
     "/api/v1/games?key=1", "data:image/png;base64,AAAA",
     " data:text/plain;base64,AA/img/AA"}

SrcsetValues == {"", "a.png 1x, //cdn.io/b.jpg 2x"}

CssTexts ==
    {"background:url(/a.png)",
     "background:url(' data:text/plain;base64,AA/img/AA ')",
     "a{background:URL(\"data:image/png;base64,AAAA\")} b{color:red}"}

\* Matches the patterns of lines 401-421 produce: match[0] and match[1].
RegexMatches ==
    {[m0 |-> "https://x.com/a.png", m1 |-> "https://x.com/a.png"],
     [m0 |-> "'/a.png'", m1 |-> "/a.png"],
     [m0 |-> "data:image/png;base64,AAAA", m1 |-> "png"]}

AstNodes ==
    {[type |-> "StringLiteral", key |-> "", value |-> "/a.png"],
     [type |-> "StringLiteral", key |-> "", value |-> "/api/v1/games?key=1"],
     [type |-> "StringLiteral", key |-> "", value |-> "data:image/png;base64,AAAA"],
     [type |-> "StringLiteral", key |-> "", value |-> " data:text/plain;base64,AA/img/AA"],
     [type |-> "TemplateLiteral", key |-> "", value |-> "//cdn.io/b.jpg"],
     [type |-> "VariableDeclarator", key |-> "heroImage", value |-> "https://x.com/a.png"],
     [type |-> "setAttribute", key |-> "src", value |-> "a.png"]}

AtMostOne(S) == {<<>>} \cup {<<x>> : x \in S}

\* Script elements: src = it has a src attribute (skipped at line 630),
\* parsed = parse() at line 456 succeeds.
ScriptBlocks ==
    {[src |-> FALSE, matches |-> ms, parsed |-> TRUE, nodes |-> ns] :
        ms \in AtMostOne(RegexMatches), ns \in AtMostOne(AstNodes)}
    \cup {[src |-> FALSE, matches |-> ms, parsed |-> FALSE, nodes |-> <<>>] :
        ms \in AtMostOne(RegexMatches)}
    \cup {[src |-> TRUE, matches |-> <<>>, parsed |-> TRUE, nodes |-> <<>>]}

\* No script block has failed to parse yet.
NoBlock == [src |-> FALSE, matches |-> <<>>, parsed |-> TRUE, nodes |-> <<>>]

HtmlBases == {"https://x.com/dir/page.html", "https://a.png.io", ""}

defaultOptions ==
    [extractImgTags |-> TRUE, extractCssBackgrounds |-> TRUE,
     extractMetaImages |-> TRUE, extractJsImages |-> TRUE,
     urlFilter |-> "acceptAll"]

\* mergedOptions (line 62) for the options the client passes.
OptionSets ==
    {[defaultOptions EXCEPT !.urlFilter = f] : f \in UrlFilters}
    \cup {[defaultOptions EXCEPT !.extractJsImages = FALSE],
           [defaultOptions EXCEPT !.extractImgTags = FALSE,
                                  !.extractCssBackgrounds = FALSE,
                                  !.extractMetaImages = FALSE]}

ParseErrorMessage == "parse failed"

NoResult == [state |-> "pending", urls |-> <<>>, total |-> 0, error |-> None]

(***************************************************************************)
(* A behaviour is one call of one exported function: no call reads state   *)
(* an earlier call left.  The client calls normalizeUrl, and may call it   *)
(* again on the value it got.                                              *)
(***************************************************************************)
Idle == api = None

hInit ==
    /\ hpc = "idle" /\ hCaller = None /\ hBase = None /\ hOpts = defaultOptions
    /\ imageUrls = <<>> /\ allImageUrls = <<>> /\ hSeen = 0 /\ hLog = {}
    /\ hUnparsed = NoBlock
    /\ hResult = NoResult

uInit ==
    /\ upc = "idle" /\ uUrl = None /\ timer = "none" /\ aborted = FALSE
    /\ uResult = NoResult

NormalizeUrl ==
    /\ Idle
    /\ \E url \in RawUrls, baseUrl \in BaseUrls :
          /\ nzUrl' = url
          /\ nzBase' = baseUrl
          /\ nzOut' = normalizeUrlCall(url, baseUrl)
    /\ nzAgain' = NoOutcome
    /\ api' = "normalizeUrl"
    /\ UNCHANGED <<hVars, uVars, cVars>>

NormalizeAgain ==
    /\ api = "normalizeUrl"
    /\ nzOut # NoOutcome /\ ~nzOut.threw
    /\ nzAgain = NoOutcome
    /\ nzAgain' = normalizeUrlCall(nzOut.value, nzBase)
    /\ UNCHANGED <<api, nzUrl, nzBase, nzOut, hVars, uVars, cVars>>

(***************************************************************************)
(* extractImagesFromHtml (lines 45-194)                                    *)
(***************************************************************************)
\* A catch block that lets the exception reject the promise.
htmlCatchRethrows(message) ==
    [state |-> "rejected", urls |-> <<>>, total |-> 0, error |-> message]

\* Lines 187-193
htmlCatch(message) ==
    [state |-> "resolved", urls |-> <<>>, total |-> 0, error |-> message]

\* A return that counts one URL too few.
htmlReturnOffByOne(set) ==
    [state |-> "resolved", urls |-> set,
     total |-> IF set = <<>> THEN 0 ELSE Len(set) - 1, error |-> None]

\* Lines 183-186
htmlReturn(set) ==
    [state |-> "resolved", urls |-> set, total |-> Len(set), error |-> None]

\* The promise settles; a call made at line 237 hands its result on.
HtmlSettle(res) ==
    /\ hResult' = res
    /\ hpc' = "done"
    /\ IF hCaller = "url"
       THEN upc' = "done" /\ uResult' = res
       ELSE UNCHANGED <<upc, uResult>>
    /\ UNCHANGED <<uUrl, timer, aborted>>

\* The client's call: lines 50-69.
ExtractImagesFromHtml ==
    /\ Idle
    /\ \E baseUrl \in HtmlBases, options \in OptionSets :
          /\ hBase' = baseUrl
          /\ hOpts' = options
    /\ hpc' = "load"
    /\ hCaller' = "client"
    /\ UNCHANGED <<imageUrls, allImageUrls, hSeen, hLog, hUnparsed, hResult>>
    /\ api' = "extractImagesFromHtml"
    /\ UNCHANGED <<nzVars, cVars, uVars>>

\* Line 71: cheerio.load(html) returns or throws.
Load ==
    /\ hpc = "load"
    /\ \E ok \in BOOLEAN :
          IF ok
          THEN /\ hpc' = "img"
               /\ UNCHANGED <<hResult, uVars, hLog>>
          ELSE /\ HtmlSettle(htmlCatch(ParseErrorMessage))
               /\ hLog' = hLog \cup {"threw"}
    /\ UNCHANGED <<api, nzVars, cVars, hCaller, hBase, hOpts, imageUrls, allImageUrls,
                   hSeen, hUnparsed>>

\* One pass met the candidates `raws`; `into` is the Set after the loop.
PassStep(raws, into) ==
    /\ hSeen + Len(raws) <= MaxCandidates
    /\ hSeen' = hSeen + Len(raws)
    /\ IF into.threw
       THEN /\ HtmlSettle(htmlCatch(into.msg))
            /\ hLog' = hLog \cup {"threw"}
            /\ UNCHANGED imageUrls
       ELSE /\ imageUrls' = into.urls
            /\ hLog' = IF into.dup THEN hLog \cup {"dup"} ELSE hLog
            /\ UNCHANGED <<hpc, hResult, uVars>>
    /\ UNCHANGED <<api, nzVars, cVars, hCaller, hBase, hOpts, allImageUrls, hUnparsed>>

\* Lines 76-118: one img element with its attributes and its srcset.
ImgElementWith(raws) ==
    /\ raws # <<>>
    /\ PassStep(raws, mergeElement(imageUrls,
                          domPass(NoThrow(<<>>), raws, hBase, hOpts.urlFilter)))

ImgElement ==
    /\ hpc = "img"
    /\ hOpts.extractImgTags
    /\ \E attrs \in AtMostOne(DocValues), srcset \in SrcsetValues :
          ImgElementWith(attrs \o (IF srcset # "" THEN parseSrcset(srcset) ELSE <<>>))

\* Lines 124-147: one style attribute or style element.
StyleTextWith(raws) ==
    PassStep(raws, domPass(NoThrow(imageUrls), raws, hBase, hOpts.urlFilter))

StyleText ==
    /\ hpc = "css"
    /\ hOpts.extractCssBackgrounds
    /\ \E cssText \in CssTexts : StyleTextWith(extractBackgroundImages(cssText))

\* Lines 160-170: one meta element matched by a selector.
MetaTag ==
    /\ hpc = "meta"
    /\ hOpts.extractMetaImages
    /\ \E content \in DocValues :
          PassStep(<<content>>,
                   domPass(NoThrow(imageUrls), <<content>>, hBase, hOpts.urlFilter))

\* Lines 625-634: one script element with n candidates, result = what
\* extractImagesFromJsCode returns for it.
ScriptElementWith(block, n, result) ==
    /\ hSeen + n <= MaxCandidates
    /\ hSeen' = hSeen + n
    /\ IF block.src
       THEN UNCHANGED <<allImageUrls, hpc, hResult, uVars, hLog, hUnparsed>>
       ELSE IF result.threw
       THEN /\ HtmlSettle(htmlCatch(InvalidUrlMessage))
            /\ hLog' = hLog \cup {"threw"}
            /\ UNCHANGED <<allImageUrls, hUnparsed>>
       ELSE /\ allImageUrls' = allImageUrls \o result.urls
            /\ hLog' = IF ~block.parsed THEN hLog \cup {"astFailed"} ELSE hLog
            /\ hUnparsed' = IF ~block.parsed THEN block ELSE hUnparsed
            /\ UNCHANGED <<hpc, hResult, uVars>>

ScriptElement ==
    /\ hpc = "js"
    /\ hOpts.extractJsImages
    /\ \E block \in ScriptBlocks :
          ScriptElementWith(block, Len(block.matches) + Len(block.nodes),
                            extractImagesFromJsCode(block, hBase))
    /\ UNCHANGED <<api, nzVars, cVars, hCaller, hBase, hOpts, imageUrls>>

\* The end of one of the first three passes.
NextPass ==
    /\ hpc \in {"img", "css", "meta"}
    /\ hpc' = CASE hpc = "img" -> "css" [] hpc = "css" -> "meta" [] hpc = "meta" -> "js"
    /\ UNCHANGED <<api, nzVars, cVars, hCaller, hBase, hOpts, imageUrls, allImageUrls,
                   hSeen, hLog, hUnparsed, hResult, uVars>>

\* Lines 636, 176-186: the script URLs are deduplicated, filtered and added,
\* and the function returns.  into = imageUrls after the loop at 176-180.
ReturnWith(jsImages, into) ==
    IF into.threw
    THEN /\ HtmlSettle(htmlCatch(into.msg))
         /\ hLog' = hLog \cup {"threw"}
         /\ UNCHANGED imageUrls
    ELSE /\ imageUrls' = into.urls
         /\ hLog' = IF into.dup \/ Len(jsImages) < Len(allImageUrls)
                    THEN hLog \cup {"dup"} ELSE hLog
         /\ HtmlSettle(htmlReturn(into.urls))

ReturnAfter(jsImages) ==
    ReturnWith(jsImages,
               IF hOpts.extractJsImages
               THEN jsFilterLoop(NoThrow(imageUrls), jsImages, hOpts.urlFilter)
               ELSE NoThrow(imageUrls))

Return ==
    /\ hpc = "js"
    /\ ReturnAfter(SetAddAll(<<>>, allImageUrls))
    /\ UNCHANGED <<api, nzVars, cVars, hCaller, hBase, hOpts, allImageUrls, hSeen,
                   hUnparsed>>

HtmlNext ==
    \/ ExtractImagesFromHtml
    \/ Load
    \/ ImgElement
    \/ StyleText
    \/ MetaTag
    \/ ScriptElement
    \/ NextPass
    \/ Return

(***************************************************************************)
(* extractImagesFromUrl (lines 202-256)                                    *)
(*                                                                         *)
(* The message texts stand for the literals of the source:                 *)
(*   TimeoutMessage       line 244      UnknownMessage       line 241      *)
(*   PreconditionMessage  line 212      HttpErrorPrefix      line 226      *)
(*   ContentTypePrefix    line 231      urlErrorText         line 253      *)
(***************************************************************************)
TimeoutMessage == "request timed out"

UnknownMessage == "unknown error"

PreconditionMessage == "URL must start with http:// or https://"

HttpErrorPrefix == "HTTP error! status: "

ContentTypePrefix == "unsupported content type: "

urlErrorText(url, errorMessage) ==
    "error while extracting images from URL [" \o url \o "]: " \o errorMessage

Error(message) == [isError |-> TRUE, name |-> "Error", message |-> message]

\* What controller.abort() makes fetch reject with.
AbortError ==
    [isError |-> TRUE, name |-> "AbortError", message |-> "This operation was aborted"]

\* What a failed retrieval rejects with: a TypeError, or a value that is not
\* an Error.
FetchFailures ==
    {[isError |-> TRUE, name |-> "TypeError", message |-> "fetch failed"],
     [isError |-> FALSE, name |-> "", message |-> ""]}

\* A message choice that does not look at error.name.
urlErrorMessageIgnoresName(error) ==
    IF error.isError THEN error.message ELSE UnknownMessage

\* Lines 241-248
urlErrorMessage(error) ==
    IF error.isError
    THEN IF error.name = "AbortError" THEN TimeoutMessage ELSE error.message
    ELSE UnknownMessage

\* Lines 250-254
urlCatch(url, error) ==
    [state |-> "resolved", urls |-> <<>>, total |-> 0,
     error |-> urlErrorText(url, urlErrorMessage(error))]

\* A clearTimeout that leaves the timer as it is.
clearTimeoutForgets(t) == t

\* clearTimeout(timeoutId), lines 223 and 239: a timer that has fired stays
\* fired.
clearTimeout(t) == IF t = "armed" THEN "cleared" ELSE t

PageUrls == {"https://x.com/dir/page.html", "ftp://h.io/d/p", "x.com/page"}

\* Responses of the server: status and content-type header (None: no header).
Responses ==
    {[status |-> 200, contentType |-> "text/html; charset=utf-8"],
     [status |-> 404, contentType |-> "text/html"],
     [status |-> 500, contentType |-> None],
     [status |-> 200, contentType |-> "application/json"],
     [status |-> 200, contentType |-> None]}

ResponseOk(response) == response.status \in 200..299

\* Lines 206-215: the controller and the timer are made, the URL is tested,
\* and fetch is called.
ExtractImagesFromUrl ==
    /\ Idle
    /\ \E url \in PageUrls, options \in OptionSets :
          /\ uUrl' = url
          /\ hOpts' = options
          /\ IF ~startsWith(url, "http")
             THEN /\ timer' = clearTimeout("armed")
                  /\ uResult' = urlCatch(url, Error(PreconditionMessage))
                  /\ upc' = "done"
             ELSE /\ timer' = "armed"
                  /\ upc' = "fetch"
                  /\ UNCHANGED uResult
    /\ api' = "extractImagesFromUrl"
    /\ UNCHANGED <<nzVars, cVars, aborted, hpc, hCaller, hBase, imageUrls, allImageUrls,
                   hSeen, hLog, hUnparsed, hResult>>

\* Line 207: the timeout callback runs controller.abort().
TimerFires ==
    /\ timer = "armed"
    /\ timer' = "fired"
    /\ aborted' = TRUE
    /\ UNCHANGED <<api, nzVars, cVars, hVars, upc, uUrl, uResult>>

\* The aborted fetch rejects; lines 238-254.  clearTimeout on a timer that
\* has fired changes nothing.
FetchAborted ==
    /\ upc = "fetch"
    /\ aborted
    /\ uResult' = urlCatch(uUrl, AbortError)
    /\ upc' = "done"
    /\ UNCHANGED <<api, nzVars, cVars, hVars, uUrl, timer, aborted>>

\* The retrieval fails before the headers; lines 238-254.
FetchFails ==
    /\ upc = "fetch"
    /\ ~aborted
    /\ \E failure \in FetchFailures : uResult' = urlCatch(uUrl, failure)
    /\ upc' = "done"
    /\ timer' = clearTimeout(timer)
    /\ UNCHANGED <<api, nzVars, cVars, hVars, uUrl, aborted>>

\* The headers arrive; lines 223-234.
FetchResolves ==
    /\ upc = "fetch"
    /\ ~aborted
    /\ timer' = clearTimeout(timer)
    /\ \E response \in Responses :
          IF ~ResponseOk(response)
          THEN /\ uResult' = urlCatch(uUrl, Error(HttpErrorPrefix \o ToString(response.status)))
               /\ upc' = "done"
          ELSE IF response.contentType = None \/ ~includes(response.contentType, "text/html")
          THEN /\ uResult' = urlCatch(uUrl,
                      Error(ContentTypePrefix \o
                            (IF response.contentType = None THEN "null"
                             ELSE response.contentType)))
               /\ upc' = "done"
          ELSE /\ upc' = "body"
               /\ UNCHANGED uResult
    /\ UNCHANGED <<api, nzVars, cVars, hVars, uUrl, aborted>>

\* The body fails to arrive: response.text() rejects; lines 238-254.
BodyFails ==
    /\ upc = "body"
    /\ \E failure \in FetchFailures : uResult' = urlCatch(uUrl, failure)
    /\ upc' = "done"
    /\ timer' = clearTimeout(timer)
    /\ UNCHANGED <<api, nzVars, cVars, hVars, uUrl, aborted>>

\* The body arrives; lines 234-237.  parsed = new URL(url).
BodyResolvesWith(parsed) ==
    IF ~parsed.ok
    THEN /\ uResult' = urlCatch(uUrl, Error(InvalidUrlMessage))
         /\ upc' = "done"
         /\ timer' = clearTimeout(timer)
         /\ UNCHANGED <<hpc, hCaller, hBase>>
    ELSE /\ hBase' = parsed.origin
         /\ hCaller' = "url"
         /\ hpc' = "load"
         /\ upc' = "html"
         /\ UNCHANGED <<uResult, timer>>

BodyResolves ==
    /\ upc = "body"
    /\ BodyResolvesWith(NewURL(uUrl))
    /\ UNCHANGED <<api, nzVars, cVars, hOpts, imageUrls, allImageUrls, hSeen, hLog,
                   hUnparsed, hResult, uUrl, aborted>>

UrlNext ==
    \/ ExtractImagesFromUrl
    \/ TimerFires
    \/ FetchAborted
    \/ FetchFails
    \/ FetchResolves
    \/ BodyFails
    \/ BodyResolves

(***************************************************************************)
(* Concurrent calls.  A client starts up to MaxCalls calls without waiting *)
(* for one to settle.  The program runs one continuation at a time and     *)
(* gives way only at the awaits of extractImagesFromUrl (lines 215, 234,   *)
(* 237); extractImagesFromHtml has no await and runs from its first line   *)
(* to its return in one piece.  controller and timeoutId are locals of the *)
(* call (lines 206-207), the Sets and the regular expressions are made     *)
(* inside the functions that use them (lines 64, 381, 401-421, 623).       *)
(***************************************************************************)
MaxCalls == 2

CallIds == 1..MaxCalls

\* A document: the attribute values of its img element and its script block.
NoDocument == [attrs |-> <<>>, block |-> NoBlock]

Documents ==
    {[attrs |-> <<"a.png">>, block |-> NoBlock],
     [attrs |-> <<"/a.png", "//cdn.io/b.jpg">>,
      block |-> [src |-> FALSE, parsed |-> FALSE, nodes |-> <<>>,
                 matches |-> <<[m0 |-> "'/a.png'", m1 |-> "/a.png"]>>]],
     [attrs |-> <<"/api/v1/games?key=1">>,
      block |-> [src |-> FALSE, parsed |-> TRUE, matches |-> <<>>,
                 nodes |-> <<[type |-> "StringLiteral", key |-> "",
                              value |-> "data:image/png;base64,AAAA"]>>]]}

NoResponse == [status |-> 0, contentType |-> None]

NoFailure == [isError |-> FALSE, name |-> None, message |-> None]

\* The locals of one call, what the network has handed to it (got, response,
\* failure, doc) and its promise.
NoCall ==
    [fn |-> "none", pc |-> "idle", url |-> None, base |-> None,
     timer |-> "none", aborted |-> FALSE, got |-> "nothing",
     response |-> NoResponse, failure |-> NoFailure, doc |-> NoDocument,
     result |-> NoResult]

\* Lines 176-186 on the Set `into` the filter loop leaves.
documentReturn(into) ==
    IF into.threw THEN htmlCatch(into.msg) ELSE htmlReturn(into.urls)

\* Lines 174-186 on the outcome js of the script pass.
documentScripts(img, js, urlFilter) ==
    IF js.threw THEN htmlCatch(InvalidUrlMessage)
    ELSE documentReturn(jsFilterLoop(NoThrow(img.urls),
                                     SetAddAll(<<>>, js.urls), urlFilter))

\* Lines 75-186 on the Set `img` the img pass leaves.
documentAfterImg(img, doc, baseUrl, urlFilter) ==
    IF img.threw THEN htmlCatch(img.msg)
    ELSE documentScripts(img, extractImagesFromJsCode(doc.block, baseUrl), urlFilter)

\* extractImagesFromHtml (lines 45-194) on a whole document.
extractDocument(doc, baseUrl, options) ==
    documentAfterImg(
        mergeElement(<<>>, domPass(NoThrow(<<>>), doc.attrs, baseUrl,
                                   options.urlFilter)),
        doc, baseUrl, options.urlFilter)

\* Lines 225-232: the error a response is refused with.
responseError(response) ==
    IF ~ResponseOk(response)
    THEN Error(HttpErrorPrefix \o ToString(response.status))
    ELSE Error(ContentTypePrefix \o
               (IF response.contentType = None THEN "null"
                ELSE response.contentType))

responseAccepted(response) ==
    /\ ResponseOk(response)
    /\ response.contentType # None
    /\ includes(response.contentType, "text/html")

\* Lines 235-237 with parsed = new URL(url).
documentOfUrl(url, parsed, doc) ==
    IF parsed.ok THEN extractDocument(doc, parsed.origin, defaultOptions)
    ELSE urlCatch(url, Error(InvalidUrlMessage))

\* An abort that reaches the controller of every call.
abortEveryController(cs, i) ==
    [j \in CallIds |-> [cs[j] EXCEPT !.aborted = TRUE]]

\* Line 207: controller.abort() on the controller call i made at line 206.
abort(cs, i) == [cs EXCEPT ![i].aborted = TRUE]

\* The other variables belong to the single calls above.
ConcurrentStep == UNCHANGED <<api, nzVars, hVars, uVars>>

\* The client calls extractImagesFromHtml: lines 45-194.
CallExtractImagesFromHtml ==
    /\ \E i \in CallIds, doc \in Documents, baseUrl \in HtmlBases :
          /\ calls[i].fn = "none"
          /\ calls' = [calls EXCEPT ![i] =
                 [@ EXCEPT !.fn = "html", !.pc = "done", !.base = baseUrl,
                           !.doc = doc, !.got = "body",
                           !.result = extractDocument(doc, baseUrl, defaultOptions)]]
    /\ ConcurrentStep

\* The client calls extractImagesFromUrl: lines 206-215.
CallExtractImagesFromUrl ==
    /\ \E i \in CallIds, url \in PageUrls :
          /\ calls[i].fn = "none"
          /\ calls' = [calls EXCEPT ![i] =
                 IF ~startsWith(url, "http")
                 THEN [@ EXCEPT !.fn = "url", !.pc = "done", !.url = url,
                                !.timer = clearTimeout("armed"),
                                !.result = urlCatch(url, Error(PreconditionMessage))]
                 ELSE [@ EXCEPT !.fn = "url", !.pc = "fetch", !.url = url,
                                !.timer = "armed"]]
    /\ ConcurrentStep

\* Line 207: the timeout callback of call i.
CallTimerFires ==
    /\ \E i \in CallIds :
          /\ calls[i].timer = "armed"
          /\ calls' = abort([calls EXCEPT ![i].timer = "fired",
                                          ![i].got = "timeout"], i)
    /\ ConcurrentStep

\* The fetch of call i rejects because its signal is aborted; lines 238-254.
CallFetchAborted ==
    /\ \E i \in CallIds :
          /\ calls[i].pc = "fetch"
          /\ calls[i].aborted
          /\ calls' = [calls EXCEPT ![i].pc = "done",
                                    ![i].timer = clearTimeout(@),
                                    ![i].result = urlCatch(calls[i].url, AbortError)]
    /\ ConcurrentStep

\* The fetch of call i fails before the headers; lines 238-254.
CallFetchFails ==
    /\ \E i \in CallIds, failure \in FetchFailures :
          /\ calls[i].pc = "fetch"
          /\ ~calls[i].aborted
          /\ calls' = [calls EXCEPT ![i].pc = "done",
                                    ![i].timer = clearTimeout(@),
                                    ![i].got = "failure",
                                    ![i].failure = failure,
                                    ![i].result = urlCatch(calls[i].url, failure)]
    /\ ConcurrentStep

\* The headers of call i arrive; lines 223-234.
CallFetchResolves ==
    /\ \E i \in CallIds, response \in Responses :
          /\ calls[i].pc = "fetch"
          /\ ~calls[i].aborted
          /\ calls' = [calls EXCEPT ![i] =
                 IF responseAccepted(response)
                 THEN [@ EXCEPT !.pc = "body", !.timer = clearTimeout(@),
                                !.got = "response", !.response = response]
                 ELSE [@ EXCEPT !.pc = "done", !.timer = clearTimeout(@),
                                !.got = "response", !.response = response,
                                !.result = urlCatch(calls[i].url,
                                                    responseError(response))]]
    /\ ConcurrentStep

\* response.text() of call i rejects; lines 238-254.
CallBodyFails ==
    /\ \E i \in CallIds, failure \in FetchFailures :
          /\ calls[i].pc = "body"
          /\ calls' = [calls EXCEPT ![i].pc = "done",
                                    ![i].got = "bodyFailure",
                                    ![i].failure = failure,
                                    ![i].result = urlCatch(calls[i].url, failure)]
    /\ ConcurrentStep

\* The body of call i arrives; lines 234-237.
CallBodyResolves ==
    /\ \E i \in CallIds, doc \in Documents :
          /\ calls[i].pc = "body"
          /\ calls' = [calls EXCEPT ![i].pc = "done",
                                    ![i].got = "body",
                                    ![i].doc = doc,
                                    ![i].result = documentOfUrl(calls[i].url,
                                                      NewURL(calls[i].url), doc)]
    /\ ConcurrentStep

ConcurrentNext ==
    \/ CallExtractImagesFromHtml
    \/ CallExtractImagesFromUrl
    \/ CallTimerFires
    \/ CallFetchAborted
    \/ CallFetchFails
    \/ CallFetchResolves
    \/ CallBodyFails
    \/ CallBodyResolves

Init ==
    /\ api = None
    /\ nzUrl = None /\ nzBase = None /\ nzOut = NoOutcome /\ nzAgain = NoOutcome
    /\ hInit /\ uInit
    /\ calls = [i \in CallIds |-> NoCall]

Next == NormalizeUrl \/ NormalizeAgain \/ HtmlNext \/ UrlNext

Spec == Init /\ [][Next]_vars

\* Calls started without waiting for one another.
ConcurrentSpec == Init /\ [][ConcurrentNext]_vars

\* The timer callback and the continuations of the program run when they
\* can; the network (FetchResolves, FetchFails, BodyResolves, BodyFails) and
\* the document owe nothing.
FairSpec ==
    /\ Spec
    /\ WF_vars(TimerFires)
    /\ WF_vars(FetchAborted)
    /\ WF_vars(Load)
    /\ WF_vars(NextPass)
    /\ WF_vars(Return)

(***************************************************************************)
(* Properties                                                              *)
(***************************************************************************)
NoRepeat(seq) == \A i, j \in DOMAIN seq : i # j => seq[i] # seq[j]

\* C1: extractImagesFromHtml never rejects, and once a step has thrown (the
\* DOM parse, a urlFilter call) the promise resolves to exactly
\* {urls: [], total: 0, error: message}, whatever was collected before.
C1_HtmlNeverRejects ==
    /\ hResult.state # "rejected"
    /\ hpc = "done" => hResult.state = "resolved"
    /\ "threw" \in hLog =>
          /\ hpc = "done"
          /\ hResult.urls = <<>>
          /\ hResult.total = 0
          /\ hResult.error \in {ParseErrorMessage, FilterErrorMessage}

\* The filter threw after a URL had been collected.
C1_Witness ==
    /\ hpc = "done"
    /\ "threw" \in hLog
    /\ imageUrls # <<>>
    /\ hResult.error = FilterErrorMessage

\* C2: every URL of a result is non-empty, satisfies the Image URL Validator
\* and is accepted by the caller's urlFilter, whichever pass found it.
C2_UrlsValidatedAndFiltered ==
    hResult.state = "resolved" =>
        \A u \in Range(hResult.urls) :
            /\ u # ""
            /\ isValidImageUrl(u)
            /\ urlFilterApply(hOpts.urlFilter, u) = "true"

\* C3: the urls of a result hold no string twice.
C3_UrlsUnique == NoRepeat(imageUrls) /\ NoRepeat(hResult.urls)

\* A URL was met a second time and the result holds URLs.
C3_Witness ==
    /\ hpc = "done"
    /\ "dup" \in hLog
    /\ Len(hResult.urls) >= 2

\* C4: in every result of extractImagesFromHtml and extractImagesFromUrl,
\* total is the length of urls.
C4_TotalIsLength ==
    /\ hResult.total = Len(hResult.urls)
    /\ uResult.total = Len(uResult.urls)

\* extractImagesFromUrl returned a successful extraction with URLs.
C4_Witness ==
    /\ upc = "done"
    /\ uResult.error = None
    /\ Len(uResult.urls) >= 2

\* C5: normalizeUrl never throws; what it returns is '' or a data: URI or a
\* string that parses as an absolute URL.
C5_NormalizeNeverThrows ==
    /\ ~nzOut.threw
    /\ ~nzAgain.threw
    /\ nzOut # NoOutcome =>
          \/ nzOut.value = ""
          \/ startsWith(nzOut.value, "data:")
          \/ NewURL(nzOut.value).ok

\* A relative candidate met a base that does not parse.
C5_Witness ==
    /\ nzUrl = "a.png"
    /\ nzBase = "not a url"
    /\ nzOut = [threw |-> FALSE, value |-> ""]

\* C6: normalizeUrl(normalizeUrl(u, b), b) = normalizeUrl(u, b).
C6_NormalizeIdempotent ==
    nzAgain # NoOutcome => nzAgain.value = nzOut.value

\* What the ordered rules prescribe, where they prescribe something.
IsHttpUrl(t) ==
    /\ NewURL(t).ok
    /\ \/ startsWith(toLowerCase(t), "http:")
       \/ startsWith(toLowerCase(t), "https:")

\* C7: normalizeUrl returns what the ordered rules prescribe: https: before
\* //host/path, the base's scheme+host before /p, the base's scheme+host and
\* directory before a bare relative path (also one spelled http...), and an
\* absolute http(s) URL as it is, whatever the base.
C7_NormalizeRules ==
    nzOut # NoOutcome =>
        LET t == trim(nzUrl)
            base == NewURL(nzBase)
            based == base.ok /\ base.origin # "null"
            bareRelative ==
                /\ t # ""
                /\ ~startsWith(t, "data:") /\ ~startsWith(t, "#")
                /\ ~startsWith(t, "javascript:") /\ ~startsWith(t, "/")
                /\ ~NewURL(t).ok
        IN  /\ (startsWith(t, "//") /\ NewURL("https:" \o t).ok)
                    => (nzOut.value = "https:" \o t)
            /\ (based /\ startsWith(t, "/") /\ ~startsWith(t, "//"))
                    => (nzOut.value = base.origin \o t)
            /\ IsHttpUrl(t) => (nzOut.value = t)
            /\ (based /\ bareRelative)
                    => (nzOut.value = base.origin \o basePath(base.pathname) \o t)

\* C8: extractImagesFromUrl never rejects; a URL without http, a status
\* outside 2xx, a content type without text/html, a failed fetch and an abort
\* each give no URLs, total 0 and an error naming the URL; the abort, and
\* only the abort, carries the timeout message.
C8_UrlFailuresReported ==
    /\ uResult.state # "rejected"
    /\ upc = "done" => uResult.state = "resolved"
    /\ upc = "done" /\ hCaller # "url" =>
          /\ uResult.urls = <<>>
          /\ uResult.total = 0
          /\ uResult.error # None
          /\ includes(uResult.error, "[" \o uUrl \o "]")
          /\ aborted <=> uResult.error = urlErrorText(uUrl, TimeoutMessage)

\* The timer fired during the fetch and the call returned the timeout error.
C8_Witness ==
    /\ upc = "done"
    /\ aborted
    /\ timer = "fired"
    /\ uResult.error = urlErrorText(uUrl, TimeoutMessage)

\* C9: the retrieval of the page, headers and body, is bounded by the
\* timeout: a call waiting for the headers or for the body always comes to
\* leave that wait.
C9_TimeoutBoundsRetrieval ==
    [](upc \in {"fetch", "body"} => <>(upc \notin {"fetch", "body"}))

\* C10: a data: URI whose MIME type is not image/ never appears in urls,
\* also when the literal has surrounding whitespace.
C10_NoNonImageDataUri ==
    hResult.state = "resolved" =>
        \A u \in Range(hResult.urls) :
            startsWith(u, "data:") => startsWith(u, "data:image/")

\* A string holding one of the extensions or patterns the validator looks
\* for (lines 316-326), or an inline image.
hasImageMark(s) ==
    \/ \E mark \in imageExtensions \cup imagePatterns : includes(toLowerCase(s), mark)
    \/ startsWith(trim(s), "data:image/")

\* The candidates a document can supply that hold no such mark.
NonImageCandidates ==
    {c \in DocValues \cup {node.value : node \in AstNodes}
              \cup {m.m0 : m \in RegexMatches} : c # "" /\ ~hasImageMark(c)}

\* C11: a candidate holding no image extension and no image path pattern
\* never produces an entry of urls, whatever the base URL is (also a base
\* whose host holds an image extension) and whichever pass met it.
C11_NonImageNeverIncluded ==
    hBase # None =>
        \A c \in NonImageCandidates :
            normalizeUrlCall(c, hBase).value \notin
                Range(imageUrls) \cup Range(hResult.urls)

\* C12: a script block parse() throws for is not fatal: the syntax-tree pass
\* gives no URL for it, what the block adds is the output of the regex pass
\* alone, the URLs of the DOM passes stay, further blocks may follow, and
\* the result of a call in which nothing else threw carries no error.
C12_ParseFailureNonFatal ==
    /\ []((hpc = "done" /\ "astFailed" \in hLog /\ "threw" \notin hLog) =>
            (/\ hResult.state = "resolved"
             /\ hResult.error = None
             /\ hResult.urls = imageUrls))
    /\ [][("astFailed" \notin hLog /\ "astFailed" \in hLog') =>
            (/\ ~hUnparsed'.parsed
             /\ extractImagesWithAST(hUnparsed'.parsed, hUnparsed'.nodes, hBase) = <<>>
             /\ allImageUrls' = allImageUrls \o
                    SetAddAll(<<>>, extractImagesWithRegex(hUnparsed'.matches, hBase).urls)
             /\ imageUrls' = imageUrls
             /\ hpc' = "js"
             /\ hResult' = hResult)]_vars

\* A block that did not parse had a URL the regex pass matched, a DOM pass
\* had found another, and the call returned both without an error.
C12_Witness ==
    /\ hpc = "done"
    /\ "astFailed" \in hLog
    /\ ~hUnparsed.parsed /\ hUnparsed.matches # <<>>
    /\ hResult.error = None
    /\ Len(hResult.urls) >= 2
    /\ \E u \in Range(allImageUrls) : u \in Range(hResult.urls)

\* C13: the regex pass harvests inline base64 image data URIs: when the text
\* of a script block holds data:image/<subtype>;base64,<payload>, the data
\* URI is in the output of the regex pass, also for a block parse() threw
\* for, where the regex pass is the only source.
C13_RegexHarvestsDataUri ==
    ~hUnparsed.parsed =>
        \A m \in Range(hUnparsed.matches) :
            startsWith(m.m0, "data:image/") => m.m0 \in Range(allImageUrls)

\* What call c returns when it runs alone with the arguments it was given
\* and what the network handed to it.
aloneUrl(c) ==
    CASE ~startsWith(c.url, "http") -> urlCatch(c.url, Error(PreconditionMessage))
      [] c.got = "timeout" -> urlCatch(c.url, AbortError)
      [] c.got \in {"failure", "bodyFailure"} -> urlCatch(c.url, c.failure)
      [] c.got = "response" -> urlCatch(c.url, responseError(c.response))
      [] c.got = "body" -> documentOfUrl(c.url, NewURL(c.url), c.doc)
      [] OTHER -> NoResult

alone(c) ==
    IF c.fn = "html" THEN extractDocument(c.doc, c.base, defaultOptions)
    ELSE aloneUrl(c)

\* C14: extraction calls share no mutable state: in every interleaving of
\* concurrent extractImagesFromHtml and extractImagesFromUrl calls a step of
\* one call leaves the state of every other call as it was, a call is
\* aborted by its own timer only, and the result of each call is the result
\* the call gives alone.
C14_CallsShareNoState ==
    /\ [](\A i \in CallIds :
            /\ calls[i].aborted => calls[i].timer = "fired"
            /\ calls[i].pc = "done" => calls[i].result = alone(calls[i]))
    /\ [][\A i, j \in CallIds :
            (i # j /\ calls'[i] # calls[i]) => calls'[j] = calls[j]]_vars

\* The timer of one call fired while another call was waiting for its page,
\* and that other call went on to return the URLs of its document.
C14_Witness ==
    \E i, j \in CallIds :
        /\ i # j
        /\ calls[i].pc = "done" /\ calls[i].timer = "fired"
        /\ calls[i].result.error = urlErrorText(calls[i].url, TimeoutMessage)
        /\ calls[j].fn = "url" /\ calls[j].pc = "done"
        /\ calls[j].result.error = None
        /\ Len(calls[j].result.urls) >= 2

\* C15: on every path through extractImagesFromUrl (URL without http, failed
\* fetch, abort, status outside 2xx, wrong content type, failed body read,
\* success) the timer armed at entry has been cleared or has fired when the
\* call returns, and nothing aborts the controller after the return.
C15_NoTimerLeftPending ==
    /\ [](upc = "done" => timer \in {"cleared", "fired"})
    /\ [][upc = "done" => (aborted' = aborted /\ timer' = timer)]_vars

\* A call whose page arrived in time and was extracted has returned.
C15_Witness ==
    /\ upc = "done"
    /\ hCaller = "url"
    /\ hpc = "done"
    /\ ~aborted
    /\ timer = "cleared"

====
